---- MODULE Spec2Model ----
(***************************************************************************)
(* Stock reservation and order lifecycle of the DSlighting27 rental        *)
(* application: booking_view, PenyewaanAdmin.save_model, the bulk payment  *)
(* verification action, mark_units_as_broken, upload_payment_view and      *)
(* cancel_expired_pending_orders, run as concurrent requests against one   *)
(* database.  A transaction's writes become visible at its commit; a row   *)
(* locked by select_for_update cannot be written by another request until  *)
(* the holder's transaction ends; reads never block.                       *)
(***************************************************************************)
EXTENDS Integers, Sequences, FiniteSets, Bags, TLC

\* ------------------------------------------------------------------ bounds
NumPaket == 2
NumPelanggan == 1
NumBook == 3
NumOrders == 2
NumSweep == 2
MaxInFlight == 2
MaxJumlah == 2
MaxStok == 2
MaxRequests == 3
MaxHarga == 2

\* --------------------------------------------------------- program constants
EXPIRY_HOURS == 2

PaketIds == 1..NumPaket
\* users 1..NumPelanggan have a Pelanggan record (Pelanggan.user is one-to-one);
\* the last user is logged in without one
Users == 1..(NumPelanggan + 1)
HasPelanggan(u) == u \in 1..NumPelanggan
Bookers == 1..NumBook
STATUS_CHOICES == {"pending", "confirmed", "cancelled", "completed"}
None == 0

VARIABLES
    stok,             \* Paket.stok, per package id
    harga,            \* Paket.harga, per package id
    rowlock,          \* per package id: the request holding the row lock, or None
    penyewaan,        \* table Penyewaan: sequence of rows, id = index; a row
                      \* holds, for tanggal_dibuat, its age: the whole hours
                      \* from tanggal_dibuat to timezone.now(), counted up to
                      \* EXPIRY_HOURS + 1 (the program only asks whether
                      \* tanggal_dibuat < now - 2 hours)
    detailpenyewaan,  \* table DetailPenyewaan
    transaksi,        \* table Transaksi
    notifikasi,       \* table Notifikasi, as a bag of rows
    book,             \* booking_view requests
    sm,               \* the staff change-form request (save_model)
    sweep,            \* cancel_expired_pending_orders runs
    konf,             \* the konfirmasi_pembayaran_masal run
    broken,           \* the mark_units_as_broken run
    requests,         \* the staff and sweep requests started so far
    released,         \* history, per order id: how often its line quantity
                      \* was added back to the stock since it was last
                      \* reserved
    stok_awal         \* the stock each package started with

vars == <<stok, harga, rowlock, penyewaan, detailpenyewaan, transaksi,
          notifikasi, book, sm, sweep, konf, broken, requests, released,
          stok_awal>>

\* the database tables, as one value a transaction works on
Tables == [stok |-> stok, penyewaan |-> penyewaan,
           detailpenyewaan |-> detailpenyewaan, transaksi |-> transaksi,
           notifikasi |-> notifikasi]

Notif(u, jenis, judul, ref) ==
    [user |-> u, jenis |-> jenis, judul |-> judul, ref |-> ref]

AddNotif(bag, n) == bag (+) SetToBag({n})

\* ------------------------------------------------------------- models.py
\* variants of is_available: one that accepts every request, one that is off
\* by one unit
is_available_always(stok_paket, jumlah_diminta) == TRUE
is_available_off(stok_paket, jumlah_diminta) == stok_paket + 1 >= jumlah_diminta

\* Paket.is_available
is_available(stok_paket, jumlah_diminta) == stok_paket >= jumlah_diminta

\* Penyewaan.total_harga: sum over the order's lines, plus ongkos_kirim (0)
RECURSIVE SumDetail(_, _, _)
SumDetail(details, pid, i) ==
    IF i > Len(details) THEN 0
    ELSE (IF details[i].penyewaan = pid
          THEN details[i].jumlah * details[i].harga_satuan ELSE 0)
         + SumDetail(details, pid, i + 1)

total_harga(details, pid) == SumDetail(details, pid, 1) + 0

\* DetailPenyewaan.save: a line whose harga_satuan is not set (None or 0) takes
\* the price its order's package has when the line is saved
DetailPenyewaanSave(row, harga_paket) ==
    IF row.harga_satuan = 0
    THEN [row EXCEPT !.harga_satuan = harga_paket]
    ELSE row

\* order.detailpenyewaan_set.first(): the index of the order's first line, or None
DetailFirst(details, pid) ==
    LET idx == {i \in 1..Len(details) : details[i].penyewaan = pid}
    IN IF idx = {} THEN None ELSE CHOOSE i \in idx : \A j \in idx : i <= j

\* ------------------------------------------------------------- signals.py
\* create_booking_notification, on the creation of a Penyewaan row: the k
\* first of its two notifications
create_booking_notification(bag, user, k) ==
    LET a == IF k >= 1
             THEN AddNotif(bag, Notif(None, "info", "Pesanan Baru", 0))
             ELSE bag
    IN IF k >= 2
       THEN AddNotif(a, Notif(user, "success", "Pesanan Berhasil", 0))
       ELSE a

\* variant of PenyewaanPostSave that does not test created
PenyewaanPostSaveAlways(bag, user, created) ==
    create_booking_notification(bag, user, 2)

\* the post_save signal of Penyewaan as Model.save() of an existing row runs
\* it: create_booking_notification line 12, if created
PenyewaanPostSave(bag, user, created) ==
    IF created THEN create_booking_notification(bag, user, 2) ELSE bag

\* -------------------------------------------------------------- views.py
\* booking_view: the writes of the atomic block, in program order:
\*   1 paket.save()   2 Penyewaan.objects.create   3, 4 its post_save signal
\*   5 DetailPenyewaan.objects.create   6 Transaksi.objects.create
\* BookingWrites is the database as the transaction sees it after the first
\* k of them.
NUM_WRITES == 6

\* variant of PaketSave that takes one unit whatever the quantity
PaketSaveOne(db, r) == [db EXCEPT !.stok[r.paket] = r.stok - 1]

\* lines 137-138: paket.stok -= jumlah; paket.save(), on the row read under
\* the lock
PaketSave(db, r) == [db EXCEPT !.stok[r.paket] = r.stok - r.jumlah]

BookingWrites(db, r, k) ==
    LET pid == Len(db.penyewaan) + 1
        p == r.paket
        q == r.jumlah
        u == r.user
        w1 == IF k >= 1 THEN PaketSave(db, r) ELSE db
        w2 == IF k >= 2
              THEN [w1 EXCEPT !.penyewaan = Append(@,
                       [pelanggan |-> u, paket |-> p, status |-> "pending",
                        age |-> 0])]
              ELSE w1
        w4 == [w2 EXCEPT !.notifikasi =
                  create_booking_notification(@, u,
                      IF k >= 4 THEN 2 ELSE IF k >= 3 THEN 1 ELSE 0)]
        w5 == IF k >= 5
              THEN [w4 EXCEPT !.detailpenyewaan = Append(@,
                       DetailPenyewaanSave(
                           [penyewaan |-> pid, jumlah |-> q,
                            harga_satuan |-> harga[p]], harga[p]))]
              ELSE w4
        w6 == IF k >= 6
              THEN [w5 EXCEPT !.transaksi = Append(@,
                       [penyewaan |-> pid,
                        jumlah_bayar |-> total_harga(w5.detailpenyewaan, pid),
                        status |-> "pending", bukti_bayar |-> FALSE])]
              ELSE w5
    IN w6

\* variant of Rollback that keeps the writes made before the exception
RollbackNone(saved, partial) == partial

\* transaction.atomic(): leaving the block by an exception restores the
\* database as it was on entry; leaving it normally keeps the writes
Rollback(saved, partial) == saved

\* the database after the transaction, given the tables to install
Install(db) ==
    /\ stok' = db.stok
    /\ penyewaan' = db.penyewaan
    /\ detailpenyewaan' = db.detailpenyewaan
    /\ transaksi' = db.transaksi
    /\ notifikasi' = db.notifikasi

\* the requests in progress; at most MaxInFlight run concurrently
InFlight ==
    Cardinality({b \in DOMAIN book : book[b].pc = "locked"})
    + Cardinality({w \in DOMAIN sweep : sweep[w].pc # "idle"})
    + (IF sm.pc # "idle" THEN 1 ELSE 0)
    + (IF konf.pc # "idle" THEN 1 ELSE 0)
    + (IF broken.pc # "idle" THEN 1 ELSE 0)

CanStart == InFlight < MaxInFlight

\* a staff or sweep request starts: one more of the MaxRequests
StartRequest ==
    /\ CanStart
    /\ requests < MaxRequests
    /\ requests' = requests + 1

BookIdle == [pc |-> "idle", paket |-> 0, jumlah |-> 0, user |-> 0, stok |-> 0]
BookDone(result) == [BookIdle EXCEPT !.pc = result]

\* variant of LockFree for a plain get(): the row is read without waiting
LockFreeAlways(p) == TRUE

\* the row lock of select_for_update: granted when no other request holds it
LockFree(p) == rowlock[p] = None

\* booking_view up to line 122: Paket.objects.select_for_update().get(id=paket_id)
BookingLock(b, paket_id, jumlah, user) ==
    /\ book[b].pc = "idle"
    /\ CanStart
    /\ IF paket_id \in PaketIds
       THEN /\ LockFree(paket_id)
            /\ rowlock' = [rowlock EXCEPT ![paket_id] = b]
            /\ book' = [book EXCEPT ![b] =
                   [pc |-> "locked", paket |-> paket_id, jumlah |-> jumlah,
                    user |-> user, stok |-> stok[paket_id]]]
       ELSE \* Paket.DoesNotExist
            /\ book' = [book EXCEPT ![b] = BookDone("notfound")]
            /\ UNCHANGED rowlock
    /\ UNCHANGED <<stok, harga, penyewaan, detailpenyewaan, transaksi,
                   notifikasi, sm, sweep, konf, broken, requests, released,
                   stok_awal>>

\* variant of BookingOutcome without the test of request.user.pelanggan
BookingOutcomeAnyUser(r, fail) ==
    IF ~is_available(r.stok, r.jumlah) THEN "insufficient"
    ELSE IF fail > 0 THEN "error"
    ELSE IF r.jumlah < 0 THEN "error"
    ELSE "ok"

\* the outcome of the atomic block for a request holding the lock; fail is the
\* write that raises (0: none).  A negative jumlah is refused by the database
\* at write 5 (DetailPenyewaan.jumlah is a PositiveIntegerField).
BookingOutcome(r, fail) ==
    IF ~is_available(r.stok, r.jumlah) THEN "insufficient"
    ELSE IF ~HasPelanggan(r.user) THEN "nopelanggan"
    ELSE IF fail > 0 THEN "error"
    ELSE IF r.jumlah < 0 THEN "error"
    ELSE "ok"

BookingFailAt(r, fail) ==
    IF r.jumlah < 0 /\ (fail = 0 \/ fail > 5) THEN 5 ELSE fail

\* booking_view lines 125-174, from the stock check to the end of the block
BookingBody(b, fail) ==
    /\ book[b].pc = "locked"
    /\ LET r == book[b]
           out == BookingOutcome(r, fail)
           db == Tables
       IN /\ book' = [book EXCEPT ![b] = BookDone(out)]
          /\ IF out = "ok"
             THEN Install(BookingWrites(db, r, NUM_WRITES))
             ELSE IF out = "error"
             THEN Install(Rollback(db,
                      BookingWrites(db, r, BookingFailAt(r, fail) - 1)))
             ELSE UNCHANGED <<stok, penyewaan, detailpenyewaan, transaksi,
                              notifikasi>>
          /\ released' = IF out = "ok" THEN Append(released, 0) ELSE released
          /\ rowlock' = [rowlock EXCEPT ![r.paket] = None]
    /\ UNCHANGED <<harga, sm, sweep, konf, broken, requests, stok_awal>>

\* -------------------------------------------------------------- admin.py
ACTIVE == {"pending", "confirmed"}
INACTIVE == {"completed", "cancelled"}

\* PenyewaanAdmin.save_model lines 153-189 as a function of what it read:
\* the stored status, the submitted status, the line quantity (<<n>>, or <<>>
\* when the order has no line) and the stok of obj.paket as the form loaded
\* it.  Result: the stok to save (<<n>>, or <<>> when paket is not saved),
\* the status to store and the message shown.
save_model(old_status, new_status, jumlah, stok_paket) ==
    IF old_status \in ACTIVE /\ new_status \in INACTIVE
    THEN IF jumlah # <<>>
         THEN [stok |-> <<stok_paket + jumlah[1]>>, status |-> new_status,
               msg |-> "dikembalikan"]
         ELSE [stok |-> <<>>, status |-> new_status, msg |-> ""]
    ELSE IF old_status \in INACTIVE /\ new_status \in ACTIVE
    THEN IF jumlah # <<>>
         THEN IF stok_paket >= jumlah[1]
              THEN [stok |-> <<stok_paket - jumlah[1]>>,
                    status |-> new_status, msg |-> "dikurangi"]
              ELSE [stok |-> <<>>, status |-> old_status,
                    msg |-> "tidak mencukupi"]
         ELSE [stok |-> <<>>, status |-> new_status, msg |-> ""]
    ELSE [stok |-> <<>>, status |-> new_status, msg |-> ""]

SmIdle == [pc |-> "idle", order |-> 0, new_status |-> "", old_status |-> "",
           stok |-> 0, msg |-> ""]

\* the change form is submitted: the form loads obj and, validating the paket
\* field, the Paket row that obj.paket then refers to
SaveModelForm(pid, new_status) ==
    /\ sm.pc = "idle"
    /\ StartRequest
    /\ pid \in 1..Len(penyewaan)
    /\ sm' = [sm EXCEPT !.pc = "form", !.order = pid,
                        !.new_status = new_status, !.old_status = "",
                        !.stok = stok[penyewaan[pid].paket]]
    /\ UNCHANGED <<stok, harga, rowlock, penyewaan, detailpenyewaan,
                   transaksi, notifikasi, book, sweep, konf, broken,
                   released, stok_awal>>

\* save_model lines 154-155: old_obj = Penyewaan.objects.get(pk=obj.pk)
SaveModelOld ==
    /\ sm.pc = "form"
    /\ sm' = [sm EXCEPT !.pc = "old",
                        !.old_status = penyewaan[sm.order].status]
    /\ UNCHANGED <<stok, harga, rowlock, penyewaan, detailpenyewaan,
                   transaksi, notifikasi, book, sweep, konf, broken,
                   requests, released, stok_awal>>

\* save_model lines 156-191: the stock write and obj.save(), committed
\* together by the change view's transaction
SaveModelSave ==
    /\ sm.pc = "old"
    /\ LET pid == sm.order
           p == penyewaan[pid].paket
           d == DetailFirst(detailpenyewaan, pid)
           jumlah == IF d = None THEN <<>>
                     ELSE <<detailpenyewaan[d].jumlah>>
           res == save_model(sm.old_status, sm.new_status, jumlah, sm.stok)
       IN /\ IF res.stok # <<>>
             THEN /\ LockFree(p)
                  /\ stok' = [stok EXCEPT ![p] = res.stok[1]]
             ELSE UNCHANGED stok
          /\ penyewaan' = [penyewaan EXCEPT ![pid].status = res.status]
          /\ notifikasi' = PenyewaanPostSave(notifikasi,
                                penyewaan[pid].pelanggan, FALSE)
          /\ released' = IF res.msg = "dikembalikan"
                         THEN [released EXCEPT ![pid] = @ + 1]
                         ELSE IF res.msg = "dikurangi"
                         THEN [released EXCEPT ![pid] = 0]
                         ELSE released
          /\ sm' = [SmIdle EXCEPT !.pc = "return", !.order = pid,
                                  !.msg = res.msg]
    /\ UNCHANGED <<harga, rowlock, detailpenyewaan, transaksi, book, sweep,
                   konf, broken, requests, stok_awal>>

\* PaketAdmin.mark_units_as_broken: the queryset is read once, then each
\* selected row with stok > 0 is saved with the stok read minus one
BrokenIdle == [pc |-> "idle", queue |-> <<>>, updated_count |-> 0]

RECURSIVE SetToSeq(_)
SetToSeq(S) ==
    IF S = {} THEN <<>>
    ELSE LET m == CHOOSE x \in S : \A y \in S : x <= y
         IN <<m>> \o SetToSeq(S \ {m})

MarkBrokenSelect(S) ==
    /\ broken.pc = "idle"
    /\ StartRequest
    /\ S # {}
    /\ LET q == SetToSeq(S)
       IN broken' = [pc |-> "loop",
                     queue |-> [i \in 1..Len(q) |->
                                   [paket |-> q[i], stok |-> stok[q[i]]]],
                     updated_count |-> 0]
    /\ UNCHANGED <<stok, harga, rowlock, penyewaan, detailpenyewaan,
                   transaksi, notifikasi, book, sm, sweep, konf, released,
                   stok_awal>>

\* variant of MarkBrokenStep without the test of paket.stok > 0
MarkBrokenStepNoTest ==
    /\ broken.pc = "loop"
    /\ LET row == Head(broken.queue)
           rest == Tail(broken.queue)
           pc == IF rest = <<>> THEN "return" ELSE "loop"
       IN /\ LockFree(row.paket)
          /\ stok' = [stok EXCEPT ![row.paket] = row.stok - 1]
          /\ broken' = [pc |-> pc, queue |-> rest,
                        updated_count |-> broken.updated_count + 1]
    /\ UNCHANGED <<harga, rowlock, penyewaan, detailpenyewaan, transaksi,
                   notifikasi, book, sm, sweep, konf, requests, released,
                   stok_awal>>

\* variant of MarkBrokenStep that decrements the stored stok in place
\* (UPDATE ... SET stok = stok - 1) after the test of the value read
MarkBrokenStepInPlace ==
    /\ broken.pc = "loop"
    /\ LET row == Head(broken.queue)
           rest == Tail(broken.queue)
           pc == IF rest = <<>> THEN "return" ELSE "loop"
       IN IF row.stok > 0
          THEN /\ LockFree(row.paket)
               /\ stok' = [stok EXCEPT ![row.paket] = @ - 1]
               /\ broken' = [pc |-> pc, queue |-> rest,
                             updated_count |-> broken.updated_count + 1]
          ELSE /\ broken' = [broken EXCEPT !.pc = pc, !.queue = rest]
               /\ UNCHANGED stok
    /\ UNCHANGED <<harga, rowlock, penyewaan, detailpenyewaan, transaksi,
                   notifikasi, book, sm, sweep, konf, requests, released,
                   stok_awal>>

\* lines 120-124, one turn of the loop: paket.stok -= 1; paket.save() on the
\* instance the queryset loaded, if its stok is positive
MarkBrokenStep ==
    /\ broken.pc = "loop"
    /\ LET row == Head(broken.queue)
           rest == Tail(broken.queue)
           pc == IF rest = <<>> THEN "return" ELSE "loop"
       IN IF row.stok > 0
          THEN /\ LockFree(row.paket)
               /\ stok' = [stok EXCEPT ![row.paket] = row.stok - 1]
               /\ broken' = [pc |-> pc, queue |-> rest,
                             updated_count |-> broken.updated_count + 1]
          ELSE /\ broken' = [broken EXCEPT !.pc = pc, !.queue = rest]
               /\ UNCHANGED stok
    /\ UNCHANGED <<harga, rowlock, penyewaan, detailpenyewaan, transaksi,
                   notifikasi, book, sm, sweep, konf, requests, released,
                   stok_awal>>

\* variant of PaketChange that also rewrites the unit price of the lines of
\* the package's orders
PaketChangeCascade(p, h, s) ==
    /\ LockFree(p)
    /\ harga' = [harga EXCEPT ![p] = h]
    /\ stok' = [stok EXCEPT ![p] = s]
    /\ detailpenyewaan' =
          [d \in 1..Len(detailpenyewaan) |->
              IF penyewaan[detailpenyewaan[d].penyewaan].paket = p
              THEN [detailpenyewaan[d] EXCEPT !.harga_satuan = h]
              ELSE detailpenyewaan[d]]
    /\ UNCHANGED <<rowlock, penyewaan, transaksi, notifikasi, book, sm,
                   sweep, konf, broken, requests, released, stok_awal>>

\* PaketAdmin's change form is saved: the Paket row is written with the harga
\* and the stok submitted; no other table is touched
PaketChange(p, h, s) ==
    /\ LockFree(p)
    /\ harga' = [harga EXCEPT ![p] = h]
    /\ stok' = [stok EXCEPT ![p] = s]
    /\ UNCHANGED <<rowlock, penyewaan, detailpenyewaan, transaksi, notifikasi,
                   book, sm, sweep, konf, broken, requests, released,
                   stok_awal>>

\* signals.py create_payment_notification, run by post_save after the row
\* is written: old_instance is read back from the table the save has just
\* updated
create_payment_notification(db, tid) ==
    LET instance == db.transaksi[tid]
        old_instance == db.transaksi[tid]
        user == db.penyewaan[instance.penyewaan].pelanggan
    IN IF old_instance.status # instance.status
       THEN IF instance.status = "verified"
            THEN AddNotif(db.notifikasi,
                     Notif(user, "success", "Pembayaran Diterima",
                           instance.penyewaan))
            ELSE IF instance.status = "failed"
            THEN AddNotif(db.notifikasi,
                     Notif(user, "danger", "Bukti Bayar Ditolak", 0))
            ELSE db.notifikasi
       ELSE db.notifikasi

\* transaksi.save(): the row write, then the post_save signal
SaveTransaksi(db, tid, row) ==
    LET w == [db EXCEPT !.transaksi[tid] = row]
    IN [w EXCEPT !.notifikasi = create_payment_notification(w, tid)]

\* konfirmasi_pembayaran_masal
KonfIdle == [pc |-> "idle", queue |-> <<>>, trx |-> 0,
             verified_count |-> 0, skipped_count |-> 0]

\* line 274: the queryset is evaluated, each row with the status it has then
KonfSelect(S) ==
    /\ konf.pc = "idle"
    /\ StartRequest
    /\ S # {}
    /\ S \subseteq 1..Len(penyewaan)
    /\ LET q == SetToSeq(S)
       IN konf' = [KonfIdle EXCEPT
              !.pc = "loop",
              !.queue = [i \in 1..Len(q) |->
                            [id |-> q[i], status |-> penyewaan[q[i]].status]]]
    /\ UNCHANGED <<stok, harga, rowlock, penyewaan, detailpenyewaan,
                   transaksi, notifikasi, book, sm, sweep, broken, released,
                   stok_awal>>

\* penyewaan.transaksi_set.filter(status='paid').first()
PaidFirst(trx, pid) ==
    LET idx == {i \in 1..Len(trx) :
                   trx[i].penyewaan = pid /\ trx[i].status = "paid"}
    IN IF idx = {} THEN None ELSE CHOOSE i \in idx : \A j \in idx : i <= j

\* variant of KonfNext that leaves the loop after any order
KonfNextAbort(rest) == "return"

\* line 274: the for loop goes to its next order, or ends
KonfNext(rest) == IF rest = <<>> THEN "return" ELSE "loop"

\* lines 276-280 and 298-301: the status of the row as selected, then the
\* query for a paid Transaksi
KonfCheck ==
    /\ konf.pc = "loop"
    /\ LET row == Head(konf.queue)
           rest == Tail(konf.queue)
           t == PaidFirst(transaksi, row.id)
       IN IF row.status = "pending" /\ t # None
          THEN konf' = [konf EXCEPT !.pc = "atomic", !.trx = t]
          ELSE konf' = [konf EXCEPT !.pc = KonfNext(rest),
                                    !.queue = rest,
                                    !.skipped_count = @ + 1]
    /\ UNCHANGED <<stok, harga, rowlock, penyewaan, detailpenyewaan,
                   transaksi, notifikasi, book, sm, sweep, broken, requests,
                   released, stok_awal>>

\* variant of KonfWrites that takes the stock at the confirmation: the
\* order's save also takes one unit of its package
KonfWritesTakeStok(db, row, tid, k) ==
    LET w1 == IF k >= 1
              THEN SaveTransaksi(db, tid,
                       [db.transaksi[tid] EXCEPT !.status = "verified"])
              ELSE db
        w2 == IF k >= 2
              THEN [w1 EXCEPT
                       !.penyewaan[row.id].status = "confirmed",
                       !.stok[db.penyewaan[row.id].paket] = @ - 1,
                       !.notifikasi = PenyewaanPostSave(@,
                           db.penyewaan[row.id].pelanggan, FALSE)]
              ELSE w1
    IN w2

\* the writes of the atomic block, lines 282-291: 1 transaksi.save() with its
\* signal, 2 penyewaan.save()
KonfWrites(db, row, tid, k) ==
    LET w1 == IF k >= 1
              THEN SaveTransaksi(db, tid,
                       [db.transaksi[tid] EXCEPT !.status = "verified"])
              ELSE db
        w2 == IF k >= 2
              THEN [w1 EXCEPT
                       !.penyewaan[row.id].status = "confirmed",
                       !.notifikasi = PenyewaanPostSave(@,
                           db.penyewaan[row.id].pelanggan, FALSE)]
              ELSE w1
    IN w2

\* lines 281-297: the atomic block; fail is the write that raises (0: none)
KonfAtomic(fail) ==
    /\ konf.pc = "atomic"
    /\ LET row == Head(konf.queue)
           rest == Tail(konf.queue)
           db == Tables
       IN /\ IF fail = 0
             THEN /\ Install(KonfWrites(db, row, konf.trx, 2))
                  /\ konf' = [konf EXCEPT !.pc = KonfNext(rest),
                                          !.queue = rest, !.trx = 0,
                                          !.verified_count = @ + 1]
             ELSE /\ Install(Rollback(db,
                                 KonfWrites(db, row, konf.trx, fail - 1)))
                  /\ konf' = [konf EXCEPT !.pc = KonfNext(rest),
                                          !.queue = rest, !.trx = 0]
    /\ UNCHANGED <<harga, rowlock, book, sm, sweep, broken, requests,
                   released, stok_awal>>

\* views.py upload_payment_view lines 222-256 with a valid file: the
\* customer's own order, its Transaksi row, saved with bukti_bayar set and
\* status paid
upload_payment_view(user, pid) ==
    /\ pid \in 1..Len(penyewaan)
    /\ penyewaan[pid].pelanggan = user
    /\ \E t \in 1..Len(transaksi) :
          /\ transaksi[t].penyewaan = pid
          /\ Install(SaveTransaksi(Tables, t,
                 [transaksi[t] EXCEPT !.bukti_bayar = TRUE,
                                      !.status = "paid"]))
    /\ UNCHANGED <<harga, rowlock, book, sm, sweep, konf, broken, requests,
                   released, stok_awal>>

\* -------------------------------------------------------------- utils.py
\* variants of expired_orders: without the status filter, without the
\* exclusion of orders with a bukti_bayar
expired_orders_any_status(orders, trx) ==
    {pid \in 1..Len(orders) :
        /\ orders[pid].age > EXPIRY_HOURS
        /\ ~\E i \in 1..Len(trx) :
               trx[i].penyewaan = pid /\ trx[i].bukti_bayar}

expired_orders_with_proof(orders, trx) ==
    {pid \in 1..Len(orders) :
        /\ orders[pid].status = "pending"
        /\ orders[pid].age > EXPIRY_HOURS}

\* variant of expired_orders with the comparison of the creation time
\* reversed: orders created after now - 2 hours
expired_orders_newer(orders, trx) ==
    {pid \in 1..Len(orders) :
        /\ orders[pid].status = "pending"
        /\ orders[pid].age < EXPIRY_HOURS
        /\ ~\E i \in 1..Len(trx) :
               trx[i].penyewaan = pid /\ trx[i].bukti_bayar}

\* cancel_expired_pending_orders lines 17-24: pending, created before
\* now - 2 hours, and no Transaksi of the order has a bukti_bayar
expired_orders(orders, trx) ==
    {pid \in 1..Len(orders) :
        /\ orders[pid].status = "pending"
        /\ orders[pid].age > EXPIRY_HOURS
        /\ ~\E i \in 1..Len(trx) :
               trx[i].penyewaan = pid /\ trx[i].bukti_bayar}

SweepIdle == [pc |-> "idle", queue |-> <<>>, stok |-> 0, jumlah |-> 0,
              cancelled_count |-> 0]

\* lines 17-27: the queryset is evaluated when the loop starts
SweepBegin(w) ==
    /\ sweep[w].pc = "idle"
    /\ LET q == SetToSeq(expired_orders(penyewaan, transaksi))
       IN sweep' = [sweep EXCEPT ![w] =
              [SweepIdle EXCEPT !.pc = IF q = <<>> THEN "return" ELSE "read",
                                !.queue = q]]
    /\ UNCHANGED <<stok, harga, rowlock, penyewaan, detailpenyewaan,
                   transaksi, notifikasi, book, sm, konf, broken, released,
                   stok_awal>>

\* the staff's trigger check_expired_orders calls it: one of the requests
SweepSelect(w) ==
    /\ StartRequest
    /\ SweepBegin(w)

\* the command cancel_expired_orders calls it, as often as it is scheduled
SweepCommand(w) ==
    /\ CanStart
    /\ SweepBegin(w)
    /\ UNCHANGED requests

\* lines 29-30: the order's first line and order.paket are loaded
SweepRead(w) ==
    /\ sweep[w].pc = "read"
    /\ LET pid == Head(sweep[w].queue)
           d == DetailFirst(detailpenyewaan, pid)
       IN IF d # None
          THEN sweep' = [sweep EXCEPT ![w].pc = "paket",
                            ![w].stok = stok[penyewaan[pid].paket],
                            ![w].jumlah = detailpenyewaan[d].jumlah]
          ELSE sweep' = [sweep EXCEPT ![w].pc = "status"]
    /\ UNCHANGED <<stok, harga, rowlock, penyewaan, detailpenyewaan,
                   transaksi, notifikasi, book, sm, konf, broken, requests,
                   released, stok_awal>>

\* variant of SweepPaket that gives back one unit whatever the quantity
SweepPaketOne(w) ==
    /\ sweep[w].pc = "paket"
    /\ LET pid == Head(sweep[w].queue)
           p == penyewaan[pid].paket
       IN /\ LockFree(p)
          /\ stok' = [stok EXCEPT ![p] = sweep[w].stok + 1]
          /\ released' = [released EXCEPT ![pid] = @ + 1]
    /\ sweep' = [sweep EXCEPT ![w].pc = "status", ![w].stok = 0,
                              ![w].jumlah = 0]
    /\ UNCHANGED <<harga, rowlock, penyewaan, detailpenyewaan, transaksi,
                   notifikasi, book, sm, konf, broken, requests, stok_awal>>

\* lines 31-32: order.paket.stok += detail.jumlah; order.paket.save()
SweepPaket(w) ==
    /\ sweep[w].pc = "paket"
    /\ LET pid == Head(sweep[w].queue)
           p == penyewaan[pid].paket
       IN /\ LockFree(p)
          /\ stok' = [stok EXCEPT ![p] = sweep[w].stok + sweep[w].jumlah]
          /\ released' = [released EXCEPT ![pid] = @ + 1]
    /\ sweep' = [sweep EXCEPT ![w].pc = "status", ![w].stok = 0,
                              ![w].jumlah = 0]
    /\ UNCHANGED <<harga, rowlock, penyewaan, detailpenyewaan, transaksi,
                   notifikasi, book, sm, konf, broken, requests, stok_awal>>

\* lines 35-36: order.status = 'cancelled'; order.save()
SweepStatus(w) ==
    /\ sweep[w].pc = "status"
    /\ LET pid == Head(sweep[w].queue)
       IN /\ penyewaan' = [penyewaan EXCEPT ![pid].status = "cancelled"]
          /\ notifikasi' = PenyewaanPostSave(notifikasi,
                                penyewaan[pid].pelanggan, FALSE)
    /\ sweep' = [sweep EXCEPT ![w].pc = "notif"]
    /\ UNCHANGED <<stok, harga, rowlock, detailpenyewaan, transaksi, book, sm,
                   konf, broken, requests, released, stok_awal>>

\* lines 39-46: the customer's notification, cancelled_count += 1, and the
\* next order of the loop
SweepNotif(w) ==
    /\ sweep[w].pc = "notif"
    /\ LET pid == Head(sweep[w].queue)
           rest == Tail(sweep[w].queue)
       IN /\ notifikasi' = AddNotif(notifikasi,
                 Notif(penyewaan[pid].pelanggan, "warning",
                       "Pesanan Dibatalkan", pid))
          /\ sweep' = [sweep EXCEPT
                 ![w].pc = IF rest = <<>> THEN "return" ELSE "read",
                 ![w].queue = rest,
                 ![w].cancelled_count = @ + 1]
    /\ UNCHANGED <<stok, harga, rowlock, penyewaan, detailpenyewaan,
                   transaksi, book, sm, konf, broken, requests, released,
                   stok_awal>>

\* a write of the loop raises (lines 32, 36, 39): the loop has no try and no
\* transaction, the exception leaves cancel_expired_pending_orders and the
\* writes already made stay
SweepFail(w) ==
    /\ sweep[w].pc \in {"paket", "status", "notif"}
    /\ sweep' = [sweep EXCEPT ![w] = SweepIdle]
    /\ UNCHANGED <<stok, harga, rowlock, penyewaan, detailpenyewaan,
                   transaksi, notifikasi, book, sm, konf, broken, requests,
                   released, stok_awal>>

\* the response is sent and the request ends
SaveModelReturn ==
    /\ sm.pc = "return"
    /\ sm' = SmIdle
    /\ UNCHANGED <<stok, harga, rowlock, penyewaan, detailpenyewaan,
                   transaksi, notifikasi, book, sweep, konf, broken,
                   requests, released, stok_awal>>

KonfReturn ==
    /\ konf.pc = "return"
    /\ konf' = KonfIdle
    /\ UNCHANGED <<stok, harga, rowlock, penyewaan, detailpenyewaan,
                   transaksi, notifikasi, book, sm, sweep, broken, requests,
                   released, stok_awal>>

MarkBrokenReturn ==
    /\ broken.pc = "return"
    /\ broken' = BrokenIdle
    /\ UNCHANGED <<stok, harga, rowlock, penyewaan, detailpenyewaan,
                   transaksi, notifikasi, book, sm, sweep, konf, requests,
                   released, stok_awal>>

SweepReturn(w) ==
    /\ sweep[w].pc = "return"
    /\ sweep' = [sweep EXCEPT ![w] = SweepIdle]
    /\ UNCHANGED <<stok, harga, rowlock, penyewaan, detailpenyewaan,
                   transaksi, notifikasi, book, sm, konf, broken, requests,
                   released, stok_awal>>

\* timezone.now() advances by one hour: every order is one hour older
Older(row) ==
    [row EXCEPT !.age = IF @ > EXPIRY_HOURS THEN @ ELSE @ + 1]

Tick ==
    /\ \E pid \in 1..Len(penyewaan) : penyewaan[pid].age <= EXPIRY_HOURS
    /\ penyewaan' = [pid \in 1..Len(penyewaan) |-> Older(penyewaan[pid])]
    /\ UNCHANGED <<stok, harga, rowlock, detailpenyewaan, transaksi,
                   notifikasi, book, sm, sweep, konf, broken, requests,
                   released, stok_awal>>

\* ------------------------------------------------------------ the system
Sweepers == 1..NumSweep
JumlahInputs == -1..MaxJumlah

Init ==
    /\ stok = [p \in PaketIds |-> MaxStok]
    /\ stok_awal = stok
    /\ harga = [p \in PaketIds |-> p]
    /\ rowlock = [p \in PaketIds |-> None]
    /\ penyewaan = <<>>
    /\ detailpenyewaan = <<>>
    /\ transaksi = <<>>
    /\ notifikasi = EmptyBag
    /\ book = [b \in Bookers |-> BookIdle]
    /\ sm = SmIdle
    /\ sweep = [w \in Sweepers |-> SweepIdle]
    /\ konf = KonfIdle
    /\ broken = BrokenIdle
    /\ requests = 0
    /\ released = <<>>

\* a booking request with inputs from the given sets; faults is the set of
\* writes the database may refuse (0: none)
Booking(bookers, pakets, jumlahs, users, faults) ==
    \/ \E b \in bookers, p \in pakets, q \in jumlahs, u \in users :
          BookingLock(b, p, q, u)
    \/ \E b \in bookers, fail \in faults : BookingBody(b, fail)

Upload ==
    \E u \in Users, pid \in 1..Len(penyewaan) : upload_payment_view(u, pid)

StaffEdit ==
    \/ \E pid \in 1..Len(penyewaan), s \in STATUS_CHOICES :
          SaveModelForm(pid, s)
    \/ SaveModelOld
    \/ SaveModelSave
    \/ SaveModelReturn

BulkVerify(faults) ==
    \/ \E S \in SUBSET (1..Len(penyewaan)) : KonfSelect(S)
    \/ KonfCheck
    \/ \E fail \in faults : KonfAtomic(fail)
    \/ KonfReturn

MarkBroken ==
    \/ \E S \in SUBSET PaketIds : MarkBrokenSelect(S)
    \/ MarkBrokenStep
    \/ MarkBrokenReturn

Sweep(w) ==
    \/ SweepSelect(w)
    \/ SweepRead(w)
    \/ SweepPaket(w)
    \/ SweepStatus(w)
    \/ SweepNotif(w)
    \/ SweepReturn(w)

\* every operation: NumOrders customers booking one unit of package 1, the
\* staff operations and one sweep trigger, no database fault
Next ==
    \/ Booking(1..NumOrders, {1}, {1}, {1}, {0})
    \/ Upload
    \/ StaffEdit
    \/ BulkVerify({0})
    \/ MarkBroken
    \/ Sweep(1)
    \/ Tick

Spec == Init /\ [][Next]_vars

\* every operation but mark_units_as_broken, the sweep triggered twice (the
\* staff's manual trigger and the scheduled command)
NextNoBroken ==
    \/ Booking(1..NumOrders, {1}, {1}, {1}, {0})
    \/ Upload
    \/ StaffEdit
    \/ BulkVerify({0})
    \/ Sweep(1)
    \/ Sweep(2)
    \/ Tick

SpecNoBroken == Init /\ [][NextNoBroken]_vars

\* bookings with every input (a package id that does not exist, quantities
\* from -1 to MaxJumlah, a user without Pelanggan) and every database fault,
\* among uploads and staff edits
NextBooking ==
    \/ Booking(1..NumOrders, 0..NumPaket, JumlahInputs, Users, 0..NUM_WRITES)
    \/ Upload
    \/ StaffEdit
    \/ Tick

SpecBooking == Init /\ [][NextBooking]_vars

\* NumBook concurrent bookings of one unit of package 1, whose stock is
\* anything up to MaxStok (MaxStok < NumBook: more calls than units)
InitRace ==
    /\ stok \in [PaketIds -> 0..MaxStok]
    /\ stok_awal = stok
    /\ harga = [p \in PaketIds |-> p]
    /\ rowlock = [p \in PaketIds |-> None]
    /\ penyewaan = <<>>
    /\ detailpenyewaan = <<>>
    /\ transaksi = <<>>
    /\ notifikasi = EmptyBag
    /\ book = [b \in Bookers |-> BookIdle]
    /\ sm = SmIdle
    /\ sweep = [w \in Sweepers |-> SweepIdle]
    /\ konf = KonfIdle
    /\ broken = BrokenIdle
    /\ requests = 0
    /\ released = <<>>

NextRace == Booking(Bookers, {1}, {1}, {1}, {0})

SpecRace == InitRace /\ [][NextRace]_vars

\* ------------------------------------------------------------ the claims
\* the line quantity of an order (0 when it has no line)
Jumlah(pid) ==
    LET d == DetailFirst(detailpenyewaan, pid)
    IN IF d = None THEN 0 ELSE detailpenyewaan[d].jumlah

RECURSIVE SumJumlah(_)
SumJumlah(S) ==
    IF S = {} THEN 0
    ELSE LET pid == CHOOSE x \in S : TRUE
         IN Jumlah(pid) + SumJumlah(S \ {pid})

\* the quantity held by the active orders of package p
Reserved(p) ==
    SumJumlah({pid \in 1..Len(penyewaan) :
                  penyewaan[pid].paket = p /\ penyewaan[pid].status \in ACTIVE})

HasProof(pid) ==
    \E t \in 1..Len(transaksi) :
        transaksi[t].penyewaan = pid /\ transaksi[t].bukti_bayar

BookersWith(result) == {b \in Bookers : book[b].pc = result}

\* C1: conservation.  For every package, the stock plus the quantities of its
\* pending and confirmed orders is the stock the package started with, in
\* every state reached by bookings, staff edits, bulk verification and sweeps.
C1_Conservation ==
    \A p \in PaketIds : stok[p] + Reserved(p) = stok_awal[p]

\* C2: the stock of a package is never negative, whatever the interleaving of
\* bookings, staff edits, mark-broken, bulk verification and sweeps.
C2_StokNonNegative == \A p \in PaketIds : stok[p] >= 0

\* mark-broken has taken a unit of a package that has an active order, and
\* the package is out of stock
C2_Witness ==
    /\ broken.pc = "return"
    /\ broken.updated_count > 0
    /\ \E p \in PaketIds :
          stok[p] = 0 /\ stok_awal[p] > 0 /\ Reserved(p) > 0

\* C3: no over-booking.  When NumBook concurrent bookings of one unit of a
\* package with K < NumBook units have all ended, exactly K of them have
\* succeeded, each with a pending order, the others were refused for
\* insufficient stock, and the stock is 0; at no time do two of them hold the
\* package's row.
C3_NoOverBooking ==
    /\ \A p \in PaketIds :
          Cardinality({b \in Bookers :
              book[b].pc = "locked" /\ book[b].paket = p}) <= 1
    /\ (\A b \in Bookers : book[b].pc \notin {"idle", "locked"}) =>
          /\ Cardinality(BookersWith("ok")) = stok_awal[1]
          /\ Cardinality(BookersWith("insufficient")) = NumBook - stok_awal[1]
          /\ stok[1] = 0
          /\ Len(penyewaan) = stok_awal[1]
          /\ \A pid \in 1..Len(penyewaan) :
                penyewaan[pid].status = "pending" /\ penyewaan[pid].paket = 1

\* all calls have ended, some accepted and some refused
C3_Witness ==
    /\ \A b \in Bookers : book[b].pc \notin {"idle", "locked"}
    /\ stok_awal[1] = MaxStok
    /\ Cardinality(BookersWith("ok")) = MaxStok
    /\ BookersWith("insufficient") # {}

\* C4: the line quantity of an order is added back to the stock at most once
\* for each time the order leaves pending/confirmed, also with two sweeps, or
\* a sweep and a staff edit, running at once.
C4_ReleasedOnce == \A pid \in 1..Len(released) : released[pid] <= 1

\* C5: a release or a re-reservation is one read-check-write under the
\* package's row lock: the step that writes the stock changes it by the
\* order's quantity from the value it has then, so no concurrent update is
\* lost.
C5_NoLostUpdate ==
    [][/\ \A w \in Sweepers :
            (sweep[w].pc = "paket" /\ sweep'[w].pc = "status") =>
                LET pid == Head(sweep[w].queue)
                    p == penyewaan[pid].paket
                IN stok'[p] = stok[p] + Jumlah(pid)
       /\ (sm.pc = "old" /\ sm'.pc = "return") =>
            LET p == penyewaan[sm.order].paket
            IN /\ sm'.msg = "dikembalikan" =>
                    stok'[p] = stok[p] + Jumlah(sm.order)
               /\ sm'.msg = "dikurangi" =>
                    stok'[p] = stok[p] - Jumlah(sm.order)]_vars

\* C6: the sweep writes neither the stock release nor the cancellation of an
\* order whose Transaksi has a bukti_bayar at the moment of the write.
C6_SweepRechecksProof ==
    [][\A w \in Sweepers :
          \/ sweep[w].pc = "paket" /\ sweep'[w].pc = "status"
          \/ sweep[w].pc = "status" /\ sweep'[w].pc = "notif"
          => ~HasProof(Head(sweep[w].queue))]_vars

\* C7: re-activation guard.  When a staff edit stores an active status on an
\* order whose stored status is cancelled or completed while the package's
\* stock is smaller than the order's quantity, the edit fails: the stored
\* status and the stock stay as they are.
C7_ReactivationGuard ==
    [][(sm.pc = "old" /\ sm'.pc = "return") =>
          LET pid == sm.order
              p == penyewaan[pid].paket
          IN (/\ penyewaan[pid].status \in INACTIVE
              /\ sm.new_status \in ACTIVE
              /\ stok[p] < Jumlah(pid))
             => /\ penyewaan'[pid].status = penyewaan[pid].status
                /\ stok' = stok]_vars

\* the tables a booking writes
BookingTables == <<stok, penyewaan, detailpenyewaan, transaksi, notifikasi>>

\* every order has exactly one line and one payment
OneLineOnePayment ==
    /\ Len(detailpenyewaan) = Len(penyewaan)
    /\ Len(transaksi) = Len(penyewaan)
    /\ \A pid \in 1..Len(penyewaan) :
          /\ Cardinality({d \in 1..Len(detailpenyewaan) :
                 detailpenyewaan[d].penyewaan = pid}) = 1
          /\ Cardinality({t \in 1..Len(transaksi) :
                 transaksi[t].penyewaan = pid}) = 1

\* booking b ends in this step
BookingEnds(b) == book[b].pc = "locked" /\ book'[b].pc # "locked"

\* C8: a booking is all or nothing.  A booking one of whose writes failed
\* leaves the stock and the tables as they were; a step that writes any of
\* the stock decrement, the order, its line, its payment or the two
\* notifications of a booking writes them all; and every order has its line
\* and its payment.
C8_BookingAtomic ==
    [][/\ \A b \in Bookers :
            BookingEnds(b) =>
               /\ book'[b].pc = "error" => BookingTables' = BookingTables
               /\ \/ BookingTables' = BookingTables
                  \/ /\ stok' = [stok EXCEPT
                                    ![book[b].paket] = @ - book[b].jumlah]
                     /\ Len(penyewaan') = Len(penyewaan) + 1
                     /\ Len(detailpenyewaan') = Len(detailpenyewaan) + 1
                     /\ Len(transaksi') = Len(transaksi) + 1
                     /\ BagCardinality(notifikasi') =
                            BagCardinality(notifikasi) + 2
       /\ OneLineOnePayment']_vars

\* a booking has been rolled back after a failed write, another has committed
C8_Witness ==
    /\ BookersWith("error") # {}
    /\ BookersWith("ok") # {}

\* C9: a booking of more units than the package has fails without a write:
\* the stock, the orders, lines, payments and notifications are unchanged.
C9_InsufficientNoWrite ==
    [][\A b \in Bookers :
          (BookingEnds(b) /\ book[b].jumlah > stok[book[b].paket]) =>
              /\ book'[b].pc = "insufficient"
              /\ BookingTables' = BookingTables]_vars

\* a booking was refused for insufficient stock
C9_Witness == BookersWith("insufficient") # {}

\* C10: a successful booking of q <= stock units takes exactly q from the
\* package's stock, leaves the other packages' stock alone, and creates one
\* pending order with one line of quantity q and one pending payment.
C10_BookingEffect ==
    [][\A b \in Bookers :
          (BookingEnds(b) /\ book'[b].pc = "ok") =>
              LET r == book[b]
                  pid == Len(penyewaan) + 1
              IN /\ r.jumlah <= stok[r.paket]
                 /\ stok' = [stok EXCEPT ![r.paket] = @ - r.jumlah]
                 /\ penyewaan' = Append(penyewaan, penyewaan'[pid])
                 /\ penyewaan'[pid].status = "pending"
                 /\ penyewaan'[pid].paket = r.paket
                 /\ penyewaan'[pid].pelanggan = r.user
                 /\ detailpenyewaan' = Append(detailpenyewaan,
                        [penyewaan |-> pid, jumlah |-> r.jumlah,
                         harga_satuan |-> harga[r.paket]])
                 /\ Len(transaksi') = Len(transaksi) + 1
                 /\ transaksi'[Len(transaksi')].penyewaan = pid
                 /\ transaksi'[Len(transaksi')].status = "pending"
                 /\ \A t \in 1..Len(transaksi) : transaksi'[t] = transaksi[t]]_vars

\* a booking of two units has succeeded and the package is out of stock
C10_Witness ==
    /\ BookersWith("ok") # {}
    /\ \E pid \in 1..Len(penyewaan) :
          /\ Jumlah(pid) = 2
          /\ penyewaan[pid].status = "pending"
          /\ stok[penyewaan[pid].paket] = stok_awal[penyewaan[pid].paket] - 2

\* bulk verification with every database fault, among bookings, uploads and
\* staff edits
NextVerify ==
    \/ Booking(1..NumOrders, {1}, {1}, {1}, {0})
    \/ Upload
    \/ StaffEdit
    \/ BulkVerify(0..2)
    \/ Tick

SpecVerify == Init /\ [][NextVerify]_vars

\* the order has a Transaksi with this status
HasPayment(pid, status) ==
    \E t \in 1..Len(transaksi) :
        transaksi[t].penyewaan = pid /\ transaksi[t].status = status

\* the bulk action takes a step on the order at the head of its queue
KonfStep == konf.pc \in {"loop", "atomic"} /\ konf' # konf

\* C11: a step of the bulk verification changes only the order it processes
\* and that order's Transaksi, and changes them only if the order's status is
\* pending and it has a Transaksi with status paid; otherwise the order and
\* its payment keep their status and the order is counted as skipped.
C11_OnlyPendingPaid ==
    [][KonfStep =>
          LET pid == Head(konf.queue).id
              ok == /\ penyewaan[pid].status = "pending"
                    /\ HasPayment(pid, "paid")
          IN /\ \A o \in 1..Len(penyewaan) :
                   o # pid => penyewaan'[o] = penyewaan[o]
             /\ \A t \in 1..Len(transaksi) :
                   transaksi[t].penyewaan # pid => transaksi'[t] = transaksi[t]
             /\ ~ok => /\ penyewaan' = penyewaan
                       /\ transaksi' = transaksi
                       /\ konf'.queue # konf.queue =>
                             konf'.skipped_count = konf.skipped_count + 1]_vars

\* C12: the bulk verification writes the Transaksi (verified) and the order
\* (confirmed) of one order in one step or not at all.
C12_VerifyAtomic ==
    [][KonfStep =>
          LET pid == Head(konf.queue).id
          IN \/ /\ penyewaan' = penyewaan
                /\ transaksi' = transaksi
                /\ konf'.verified_count = konf.verified_count
             \/ /\ konf.pc = "atomic"
                /\ penyewaan'[pid].status = "confirmed"
                /\ transaksi'[konf.trx].status = "verified"
                /\ transaksi[konf.trx].penyewaan = pid
                /\ konf'.verified_count = konf.verified_count + 1]_vars

\* a batch of two paid orders has ended: one verified and confirmed, the
\* other's unit failed and left it pending and paid
C12_Witness ==
    /\ konf.pc = "return"
    /\ konf.verified_count = 1
    /\ konf.skipped_count = 0
    /\ \E a, b \in 1..Len(penyewaan) :
          /\ penyewaan[a].status = "confirmed" /\ HasPayment(a, "verified")
          /\ penyewaan[b].status = "pending" /\ HasPayment(b, "paid")

\* C13: every order whose Transaksi is verified has a notification
\* 'Pembayaran Diterima' addressed to its customer.
C13_PaymentConfirmedNotified ==
    \A t \in 1..Len(transaksi) :
        transaksi[t].status = "verified" =>
            \E n \in BagToSet(notifikasi) :
                /\ n.judul = "Pembayaran Diterima"
                /\ n.user = penyewaan[transaksi[t].penyewaan].pelanggan

\* one request at a time: customers book and upload, staff edit, time
\* passes; then cancel_expired_pending_orders is called, and called again
\* while the first call's result is held, with no write in between
NextSweepSeq ==
    \/ /\ \A w \in Sweepers : sweep[w].pc = "idle"
       /\ \/ Booking(1..NumOrders, PaketIds, 1..MaxJumlah, {1}, {0})
          \/ Upload
          \/ StaffEdit
          \/ Tick
       /\ InFlight' <= 1
    \/ /\ sweep[2].pc = "idle"
       /\ Sweep(1)
       /\ InFlight' <= 1
    \/ /\ sweep[1].pc = "return"
       /\ Sweep(2)

SpecSweepSeq == Init /\ [][NextSweepSeq]_vars

\* one request at a time, no staff edit, and a sweep that a failing write
\* may end at any step
NextSweepFail ==
    \/ /\ sweep[1].pc = "idle"
       /\ \/ Booking(1..NumOrders, PaketIds, 1..MaxJumlah, {1}, {0})
          \/ Upload
          \/ Tick
    \/ /\ \A b \in Bookers : book[b].pc # "locked"
       /\ \/ Sweep(1)
          \/ SweepFail(1)

SpecSweepFail == Init /\ [][NextSweepFail]_vars

\* the order is one the sweep is to cancel: pending, created more than
\* EXPIRY_HOURS ago, no Transaksi of it with a bukti_bayar
EligibleIn(orders, trx, pid) ==
    /\ orders[pid].status = "pending"
    /\ orders[pid].age > EXPIRY_HOURS
    /\ \A t \in 1..Len(trx) : trx[t].penyewaan = pid => ~trx[t].bukti_bayar

Eligible(pid) == EligibleIn(penyewaan, transaksi, pid)

Range(seq) == {seq[i] : i \in 1..Len(seq)}

\* the notifications of a bag with one of the given titles, counted
CountJudul(bag, J) ==
    BagCardinality([n \in {m \in BagToSet(bag) : m.judul \in J} |-> bag[n]])

\* the sweep w goes from one position of its loop to another
SweepFromTo(w, from, to) == sweep[w].pc = from /\ sweep'[w].pc = to

\* C14: a sweep run alone selects every order that is pending, older than
\* EXPIRY_HOURS and without proof; for each it adds exactly the line quantity
\* to the stock of the order's package, sets the order cancelled and creates
\* exactly one notification for the order's customer; when it returns no
\* such order is left.
C14_SweepCancelsExpired ==
    [][\A w \in Sweepers :
          LET q == sweep[w].queue
              pid == Head(q)
          IN /\ (sweep[w].pc = "idle" /\ sweep'[w].pc # "idle") =>
                   /\ \A o \in 1..Len(penyewaan) :
                         Eligible(o) => o \in Range(sweep'[w].queue)
                   /\ Len(sweep'[w].queue) =
                         Cardinality(Range(sweep'[w].queue))
             /\ SweepFromTo(w, "read", "status") => FALSE
             /\ SweepFromTo(w, "paket", "status") =>
                   /\ stok' = [stok EXCEPT ![penyewaan[pid].paket] =
                                   @ + Jumlah(pid)]
                   /\ Jumlah(pid) > 0
             /\ SweepFromTo(w, "status", "notif") =>
                   penyewaan' = [penyewaan EXCEPT ![pid].status = "cancelled"]
             /\ (sweep[w].pc = "notif" /\ sweep'[w].pc # "notif") =>
                   /\ notifikasi' = notifikasi (+) SetToBag({
                          Notif(penyewaan[pid].pelanggan, "warning",
                                "Pesanan Dibatalkan", pid)})
                   /\ sweep'[w].queue = Tail(q)
                   /\ sweep'[w].cancelled_count = sweep[w].cancelled_count + 1
             /\ (sweep[w].pc # "return" /\ sweep'[w].pc = "return") =>
                   /\ sweep'[w].queue = <<>>
                   /\ \A o \in 1..Len(penyewaan') :
                         ~EligibleIn(penyewaan', transaksi', o)]_vars

\* a sweep has cancelled two orders, one of them of two units; the stock is
\* back and each has its notification
C14_Witness ==
    /\ sweep[1].pc = "return"
    /\ sweep[1].cancelled_count = 2
    /\ \E a, b \in 1..Len(penyewaan) :
          /\ a # b
          /\ Jumlah(a) = 2
          /\ \A o \in {a, b} :
                /\ penyewaan[o].status = "cancelled"
                /\ CopiesIn(Notif(penyewaan[o].pelanggan, "warning",
                                   "Pesanan Dibatalkan", o), notifikasi) = 1
    /\ \A p \in PaketIds : stok[p] + Reserved(p) = stok_awal[p]

\* C15: a second sweep called right after a first, with no write in between,
\* changes no order, no stock and no notification and returns
\* cancelled_count 0; no order's quantity is given back twice.
C15_SweepIdempotent ==
    [][(sweep[1].pc = "return" /\ sweep'[2] # sweep[2]) =>
          /\ BookingTables' = BookingTables
          /\ sweep'[2].queue = <<>>
          /\ sweep'[2].cancelled_count = 0
          /\ sweep'[2].pc \in {"return", "idle"}
          /\ \A pid \in 1..Len(released') : released'[pid] <= 1]_vars

\* the first call cancelled an order, the second has returned
C15_Witness ==
    /\ sweep[1].pc = "return"
    /\ sweep[1].cancelled_count >= 1
    /\ sweep[2].pc = "return"
    /\ sweep[2].cancelled_count = 0

\* the staff edit writes: save_model's transaction commits
SaveModelCommits == sm.pc = "old" /\ sm'.pc = "return"

\* C16: a staff edit that stores completed or cancelled on an order whose
\* status is pending or confirmed adds exactly the order's line quantity to
\* the stock of the order's package and stores the new status.
C16_EditReleases ==
    [][SaveModelCommits =>
          LET pid == sm.order
              p == penyewaan[pid].paket
          IN (penyewaan[pid].status \in ACTIVE /\ sm.new_status \in INACTIVE)
             => /\ stok' = [stok EXCEPT ![p] = @ + Jumlah(pid)]
                /\ penyewaan'[pid].status = sm.new_status]_vars

\* no sweep is between its first write and its last
SweepsQuiet == \A w \in Sweepers : sweep[w].pc \in {"idle", "read", "return"}

\* the customer of the order has a notification of its cancellation
CancelNotified(pid) ==
    \E n \in BagToSet(notifikasi) :
        /\ n.judul = "Pesanan Dibatalkan"
        /\ n.user = penyewaan[pid].pelanggan
        /\ n.ref = pid

\* C17: the sweep's cancellation of an order is all or nothing: when no
\* sweep is running, an order has had its quantity given back exactly if it
\* is cancelled, and every cancelled order has its notification, also after
\* a sweep that failed at one of its writes.
C17_SweepAtomic ==
    SweepsQuiet =>
        \A pid \in 1..Len(penyewaan) :
            /\ released[pid] >= 1 <=> penyewaan[pid].status = "cancelled"
            /\ penyewaan[pid].status = "cancelled" => CancelNotified(pid)

\* C18: every order cancelled by a staff edit or by the sweep has a
\* notification 'Pesanan Dibatalkan' for its customer, as soon as the
\* request that cancelled it has made its writes.
C18_CancelNotified ==
    \A pid \in 1..Len(penyewaan) :
        penyewaan[pid].status = "cancelled" =>
            \/ CancelNotified(pid)
            \/ \E w \in Sweepers :
                   sweep[w].pc = "notif" /\ Head(sweep[w].queue) = pid

\* the titles of the two notifications of create_booking_notification
BookingJudul == {"Pesanan Baru", "Pesanan Berhasil"}

\* C19: the step that commits a booking adds exactly two notifications, a
\* 'Pesanan Baru' with no user and a 'Pesanan Berhasil' for the booking
\* customer; no other step, in particular no later save of the order, adds a
\* notification with one of these titles.
C19_BookingNotifications ==
    [][IF \E b \in Bookers : BookingEnds(b) /\ book'[b].pc = "ok"
       THEN \E b \in Bookers :
               /\ BookingEnds(b)
               /\ notifikasi' = notifikasi
                      (+) SetToBag({Notif(None, "info", "Pesanan Baru", 0)})
                      (+) SetToBag({Notif(book[b].user, "success",
                                          "Pesanan Berhasil", 0)})
               /\ Len(penyewaan') = Len(penyewaan) + 1
       ELSE CountJudul(notifikasi', BookingJudul) =
               CountJudul(notifikasi, BookingJudul)]_vars

\* two orders were booked; one was then verified by the bulk action, one
\* cancelled: four booking notifications
C19_Witness ==
    /\ Len(penyewaan) = 2
    /\ \E a, b \in 1..Len(penyewaan) :
          /\ penyewaan[a].status = "confirmed" /\ HasPayment(a, "verified")
          /\ penyewaan[b].status = "cancelled"
    /\ CountJudul(notifikasi, BookingJudul) = 4

\* C20: a sweep run alone selects only orders that are pending, older than
\* EXPIRY_HOURS and without proof, and each of its steps leaves every other
\* order as it is: it changes the status of no order but the selected one it
\* is processing, the stock of no package but that order's, and adds no
\* notification but that order's.
C20_SweepFrame ==
    [][\A w \in Sweepers :
          sweep'[w] # sweep[w] =>
             /\ sweep[w].pc = "idle" =>
                   /\ \A o \in Range(sweep'[w].queue) : Eligible(o)
                   /\ BookingTables' = BookingTables
             /\ sweep[w].pc \in {"read", "return"} =>
                   BookingTables' = BookingTables
             /\ sweep[w].pc \in {"paket", "status", "notif"} =>
                   LET pid == Head(sweep[w].queue)
                   IN /\ sweep'[w].queue \in {sweep[w].queue,
                                              Tail(sweep[w].queue)}
                      /\ \A o \in 1..Len(penyewaan) :
                            o # pid => penyewaan'[o] = penyewaan[o]
                      /\ \A p \in PaketIds :
                            p # penyewaan[pid].paket => stok'[p] = stok[p]
                      /\ \A n \in BagToSet(notifikasi') :
                            CopiesIn(n, notifikasi') # CopiesIn(n, notifikasi)
                                => n.ref = pid
                      /\ \A o \in 1..Len(penyewaan) :
                            ~Eligible(o) => penyewaan'[o] = penyewaan[o]
                      /\ stok' # stok => Eligible(pid)]_vars

\* a sweep has cancelled an order and returned; an old pending order with a
\* proof and an order that is not pending are as they were
C20_Witness ==
    /\ sweep[1].pc = "return"
    /\ sweep[1].cancelled_count = 1
    /\ \E o \in 1..Len(penyewaan) :
          /\ penyewaan[o].age > EXPIRY_HOURS
          /\ \/ penyewaan[o].status = "pending" /\ HasProof(o)
             \/ penyewaan[o].status = "confirmed"
          /\ ~CancelNotified(o)
          /\ released[o] = 0

\* C21: the bulk verification isolates the failure of one order.  A unit that
\* fails leaves the Transaksi and the order as they were, the orders verified
\* before it stay verified, and the loop goes on to the orders after it: the
\* action returns only when its queue is empty.
C21_FailureIsolated ==
    [][KonfStep =>
          /\ (konf.pc = "atomic" /\ konf'.verified_count = konf.verified_count)
                => /\ penyewaan' = penyewaan
                   /\ transaksi' = transaksi
                   /\ notifikasi' = notifikasi
                   /\ konf'.skipped_count = konf.skipped_count
          /\ konf'.queue \in {konf.queue, Tail(konf.queue)}
          /\ konf'.pc = "return" <=> konf'.queue = <<>>]_vars

\* a batch of two paid orders in which the first order's unit failed and the
\* second was verified after it
C21_Witness ==
    /\ konf.pc = "return"
    /\ konf.verified_count = 1
    /\ konf.skipped_count = 0
    /\ Len(penyewaan) = 2
    /\ penyewaan[1].status = "pending" /\ HasPayment(1, "paid")
    /\ penyewaan[2].status = "confirmed" /\ HasPayment(2, "verified")

\* bookings of one unit of package 1, whose stock is anything up to MaxStok,
\* among staff edits of the orders booked
NextReactivate ==
    \/ Booking(1..NumOrders, {1}, {1}, {1}, {0})
    \/ StaffEdit

SpecReactivate == InitRace /\ [][NextReactivate]_vars

\* C22: reservations against one package serialize.  A staff re-activation
\* and a booking that race for the last unit do not both obtain it: the
\* active orders of a package never hold more units than the package has.
C22_ReservationsSerialize ==
    \A p \in PaketIds : Reserved(p) <= stok_awal[p]

\* staff change the price of a package (the stok field submitted as shown)
PriceChange ==
    \E p \in PaketIds, h \in 0..MaxHarga : PaketChange(p, h, stok[p])

\* bookings of every package and quantity, among price changes and uploads
NextPrice ==
    \/ Booking(1..NumOrders, PaketIds, 1..MaxJumlah, {1}, {0})
    \/ PriceChange
    \/ Upload

SpecPrice == Init /\ [][NextPrice]_vars

\* C23: the unit price of an order line is the package's price when the
\* order was booked.  The booking stores that price in the line and the
\* order's total in the payment; no later step, in particular no change of
\* the package's price, changes the unit price of a line or the total of an
\* order, and the amount of the payment stays the order's total.
C23_PriceSnapshot ==
    [][/\ \A d \in 1..Len(detailpenyewaan) :
             detailpenyewaan'[d] = detailpenyewaan[d]
       /\ \A pid \in 1..Len(penyewaan) :
             total_harga(detailpenyewaan', pid) =
                 total_harga(detailpenyewaan, pid)
       /\ \A b \in Bookers :
             (BookingEnds(b) /\ book'[b].pc = "ok") =>
                 LET pid == Len(penyewaan')
                     d == DetailFirst(detailpenyewaan', pid)
                 IN /\ detailpenyewaan'[d].harga_satuan = harga[book[b].paket]
                    /\ total_harga(detailpenyewaan', pid) =
                           book[b].jumlah * harga[book[b].paket]
       /\ \A t \in 1..Len(transaksi') :
             transaksi'[t].jumlah_bayar =
                 total_harga(detailpenyewaan', transaksi'[t].penyewaan)]_vars

\* an order of two units booked at price 1 whose package now costs 2: the
\* line still has unit price 1 and the total is 2
C23_Witness ==
    \E pid \in 1..Len(penyewaan) :
        LET d == DetailFirst(detailpenyewaan, pid)
        IN /\ d # None
           /\ detailpenyewaan[d].jumlah = 2
           /\ detailpenyewaan[d].harga_satuan = 1
           /\ harga[penyewaan[pid].paket] = 2
           /\ total_harga(detailpenyewaan, pid) = 2

\* C24: a booking of a package id that does not exist, or by a user who has
\* no Pelanggan, ends with an error shown to the caller and writes nothing:
\* a request proceeds to the stock check only with the row of an existing
\* package, the one that does not ends "notfound"; a request of a user
\* without Pelanggan ends refused; and neither changes the stock, the orders,
\* lines, payments or notifications.
C24_NotFoundNoWrite ==
    [][\A b \in Bookers :
          /\ (book[b].pc = "idle" /\ book'[b].pc # "idle") =>
                /\ \/ book'[b].pc = "locked" /\ book'[b].paket \in PaketIds
                   \/ book'[b].pc = "notfound"
                /\ BookingTables' = BookingTables
          /\ (BookingEnds(b) /\ ~HasPelanggan(book[b].user)) =>
                /\ book'[b].pc \in {"nopelanggan", "insufficient"}
                /\ BookingTables' = BookingTables
          /\ (book'[b].pc # book[b].pc
              /\ book'[b].pc \in {"notfound", "nopelanggan"}) =>
                BookingTables' = BookingTables]_vars

\* one booking named a package that does not exist, another came from a user
\* without Pelanggan, and nothing was written
C24_Witness ==
    /\ BookersWith("notfound") # {}
    /\ BookersWith("nopelanggan") # {}
    /\ penyewaan = <<>>
    /\ stok = stok_awal

\* C25: a staff edit that stores pending or confirmed on an order whose status
\* is completed or cancelled, while the package's stock is at least the
\* order's quantity, takes exactly that quantity from the stock and stores
\* the new status, in one step.
C25_ReactivationTakes ==
    [][SaveModelCommits =>
          LET pid == sm.order
              p == penyewaan[pid].paket
          IN (/\ penyewaan[pid].status \in INACTIVE
              /\ sm.new_status \in ACTIVE
              /\ stok[p] >= Jumlah(pid))
             => /\ stok' = [stok EXCEPT ![p] = @ - Jumlah(pid)]
                /\ penyewaan'[pid].status = sm.new_status]_vars

\* bookings of every package and quantity among mark_units_as_broken actions
NextBroken ==
    \/ Booking(1..NumOrders, PaketIds, 1..MaxJumlah, {1}, {0})
    \/ MarkBroken

SpecBroken == Init /\ [][NextBroken]_vars

\* mark_units_as_broken takes a turn of its loop
MarkBrokenTurn == broken.pc = "loop" /\ broken' # broken

\* C26: mark_units_as_broken is not locked against bookings: it saves the
\* stok it read when the action started, minus one, whatever a booking has
\* committed since, so a booking's decrement can be overwritten; but the
\* value it saves, like every stok, is never negative.
C26_BrokenRaceNotNegative ==
    [][MarkBrokenTurn =>
          LET row == Head(broken.queue)
          IN /\ stok' = IF row.stok > 0
                        THEN [stok EXCEPT ![row.paket] = row.stok - 1]
                        ELSE stok
             /\ \A p \in PaketIds : stok'[p] >= 0]_vars

\* a booking of every unit of a package committed between the read and the
\* write of a mark-broken, whose write put one unit back in stock
C26_Witness ==
    /\ broken.pc = "return"
    /\ broken.updated_count = 1
    /\ \E p \in PaketIds :
          /\ Reserved(p) = stok_awal[p]
          /\ stok[p] = stok_awal[p] - 1

\* C26 as stated: when a booking has taken the last unit of a package since a
\* mark-broken read its stok, the mark-broken's write leaves the stok negative.
C26_RaceGoesNegative ==
    [][MarkBrokenTurn =>
          LET row == Head(broken.queue)
          IN (row.stok > 0 /\ stok[row.paket] = 0) =>
                 stok'[row.paket] < 0]_vars

\* C27: the bulk verification has no effect on stock: no step of the action,
\* whether it verifies, skips or fails on an order, changes the stok of any
\* package, and a batch leaves every stok as it found it.
C27_VerifyKeepsStok ==
    [][(konf' # konf) => stok' = stok]_vars

\* a batch has verified two orders; the stock is what the two bookings left
C27_Witness ==
    /\ konf.pc = "return"
    /\ konf.verified_count = 2
    /\ \A pid \in 1..Len(penyewaan) : penyewaan[pid].status = "confirmed"
    /\ stok[1] = stok_awal[1] - 2

\* the scheduled command runs the sweep
SweepScheduled ==
    \/ SweepCommand(1)
    \/ SweepRead(1)
    \/ SweepPaket(1)
    \/ SweepStatus(1)
    \/ SweepNotif(1)
    \/ SweepReturn(1)

\* a booking that holds the row lock runs to its end
BookingRuns == \E b \in Bookers : BookingBody(b, 0)

\* customers book and upload, time passes, the command is scheduled again
\* and again
NextLive ==
    \/ Booking(1..NumOrders, {1}, 1..MaxJumlah, {1}, {0})
    \/ Upload
    \/ Tick
    \/ SweepScheduled

\* the command is run whenever it stays due, the clock advances, and a
\* request that has started is served to its end
SpecLive ==
    /\ Init
    /\ [][NextLive]_vars
    /\ WF_vars(SweepScheduled)
    /\ WF_vars(Tick)
    /\ WF_vars(BookingRuns)

\* C28: liveness of the expiry.  With the sweep run again and again and time
\* advancing, every order is eventually either given a proof of payment or
\* cancelled with its quantity added back to its package's stock: none stays
\* pending without proof for ever.
C28_ExpiryLive ==
    \A pid \in 1..NumOrders :
        (pid <= Len(penyewaan)) ~>
            \/ HasProof(pid)
            \/ /\ pid <= Len(penyewaan)
               /\ penyewaan[pid].status = "cancelled"
               /\ released[pid] >= 1

\* both orders were left without proof and the scheduled sweep has cancelled
\* them and given their units back
C28_Witness ==
    /\ Len(penyewaan) = NumOrders
    /\ \A pid \in 1..Len(penyewaan) :
          /\ ~HasProof(pid)
          /\ penyewaan[pid].status = "cancelled"
          /\ released[pid] = 1
    /\ stok = stok_awal

\* C29: the cancelled_count a sweep returns is the number of orders whose
\* status that call changed from pending to cancelled: the count starts at 0,
\* rises by one after each status write of the call and at no other step,
\* and each status write of the call finds the order pending and leaves it
\* cancelled.
C29_CancelledCount ==
    [][\A w \in Sweepers :
          LET pid == Head(sweep[w].queue)
          IN /\ (sweep[w].pc = "idle" /\ sweep'[w].pc # "idle") =>
                   sweep'[w].cancelled_count = 0
             /\ SweepFromTo(w, "status", "notif") =>
                   /\ penyewaan[pid].status = "pending"
                   /\ penyewaan'[pid].status = "cancelled"
                   /\ sweep'[w].cancelled_count = sweep[w].cancelled_count
             /\ (sweep[w].pc = "notif" /\ sweep'[w].pc # "notif") =>
                   sweep'[w].cancelled_count = sweep[w].cancelled_count + 1
             /\ (sweep[w].pc \notin {"idle", "notif", "return"}) =>
                   sweep'[w].cancelled_count = sweep[w].cancelled_count
             /\ (sweep[w].pc # "return" /\ sweep'[w].pc = "return") =>
                   sweep'[w].queue = <<>>]_vars

\* the two statuses are in the same activity class
SameClass(a, b) == (a \in ACTIVE) <=> (b \in ACTIVE)

\* C30: a staff edit that keeps the order in its activity class (pending to
\* confirmed or back, cancelled to completed or back, or the status
\* unchanged) leaves the stock of every package unchanged and stores the
\* status submitted.
C30_SameClassEdit ==
    [][SaveModelCommits =>
          LET pid == sm.order
          IN SameClass(penyewaan[pid].status, sm.new_status) =>
                /\ stok' = stok
                /\ penyewaan'[pid].status = sm.new_status]_vars

\* C31: the sweep only moves orders out of pending.  Whatever staff edits and
\* bulk verifications run at the same time, the order whose stock the sweep
\* releases, and the order on which it writes cancelled, is pending at the
\* moment of that write.
C31_SweepOnlyPending ==
    [][\A w \in Sweepers :
          \/ SweepFromTo(w, "paket", "status")
          \/ SweepFromTo(w, "status", "notif")
          => penyewaan[Head(sweep[w].queue)].status = "pending"]_vars

\* C32: the bulk verification only moves orders out of pending.  Whatever
\* staff edit cancels or completes the order at the same time, the order on
\* which the action writes confirmed is not cancelled or completed at the
\* moment of the write.
C32_VerifyOnlyPending ==
    [][(KonfStep /\ konf'.verified_count # konf.verified_count) =>
          penyewaan[Head(konf.queue).id].status \notin INACTIVE]_vars

\* C33: a Transaksi that the staff's verification has set to verified stays
\* verified: no later step, in particular no upload of a proof by the
\* customer, changes its status.
C33_VerifiedStays ==
    [][\A t \in 1..Len(transaksi) :
          transaksi[t].status = "verified" =>
              transaksi'[t].status = "verified"]_vars

\* one request at a time: bookings of every package and quantity, and
\* mark_units_as_broken actions
NextBrokenSeq ==
    /\ NextBroken
    /\ InFlight' <= 1

SpecBrokenSeq == Init /\ [][NextBrokenSeq]_vars

\* C34: mark_units_as_broken run alone.  The action takes each selected
\* package once; a turn of its loop on a package in stock takes exactly one
\* unit from that package and counts it, a turn on a package with stok 0
\* leaves the stok 0 and does not count it; no turn changes the stok of
\* another package, an order, a line, a payment or a notification.
C34_MarkBrokenAlone ==
    [][/\ (broken.pc = "idle" /\ broken'.pc # "idle") =>
             /\ broken'.updated_count = 0
             /\ \A i, j \in 1..Len(broken'.queue) :
                   broken'.queue[i].paket = broken'.queue[j].paket => i = j
             /\ BookingTables' = BookingTables
       /\ MarkBrokenTurn =>
             LET p == Head(broken.queue).paket
             IN /\ broken'.queue = Tail(broken.queue)
                /\ IF stok[p] > 0
                   THEN /\ stok' = [stok EXCEPT ![p] = @ - 1]
                        /\ broken'.updated_count = broken.updated_count + 1
                   ELSE /\ stok' = stok
                        /\ stok'[p] = 0
                        /\ broken'.updated_count = broken.updated_count
                /\ penyewaan' = penyewaan
                /\ detailpenyewaan' = detailpenyewaan
                /\ transaksi' = transaksi
                /\ notifikasi' = notifikasi]_vars

\* an action has returned having updated nothing, its packages being out of
\* stock, after an earlier action took a unit that no order holds
C34_Witness ==
    /\ broken.pc = "return"
    /\ broken.updated_count = 0
    /\ \E p \in PaketIds : stok[p] = 0
    /\ \E p \in PaketIds : stok[p] + Reserved(p) < stok_awal[p]

====
